---- MODULE Spec2Model ----
(***************************************************************************)
(* Model of the sundials4py binding-generation scripts:                    *)
(*   src/litgen_extensions/preprocess.py      header text rewrites         *)
(*   src/litgen_extensions/adapt_sundials_type_returns.py  handle adapter  *)
(*   src/generate.py                          generate() and main()        *)
(*                                                                         *)
(* Text is modelled at character level: a text is a sequence of            *)
(* one-character strings, so that str.replace, startswith, the regular     *)
(* expression match, split(",") and strip() are computed as Python         *)
(* computes them.                                                          *)
(***************************************************************************)
EXTENDS Integers, Sequences, FiniteSets, TLC

VARIABLES
    \* --- preprocess.py ---
    code,        \* the text currently held by the caller of a rewrite
    once,        \* the text after the first application of the rewrite
    applied,     \* how many times the rewrite has been applied (0..2)
    rewrite,     \* which rewrite is exercised: "strip", "long", "pre"
    \* --- adapt_sundials_type_returns.py ---
    adapted_function,  \* the function description handed to the adapter
    original,          \* the description as it was before the call
    tuple_slots,       \* slot types the tuple return type was written from
    pointer_types,     \* options.sundials_pointer_types seen by the adapter
    outcome,           \* "pending", then what the call produced
    \* --- generate.py ---
    pc,             \* the statement main() / generate() is at
    dump_srcml,     \* the --dump-srcml flag
    n_configs,      \* number of configuration files main() found
    cfg,            \* index of the configuration file being generated
    config_object,  \* the loaded configuration: its modules and "all" sections
    all_seen,       \* the loop over the keys has passed the "all" key
    module,         \* the module of the current iteration
    processed,      \* the modules iterated so far in this generate() call
    options,        \* the LitgenOptions object of this generate() call
    written,        \* output files written since main() started
    call_io,        \* per generate() call: headers read, parser and generator calls, outputs
    error           \* the error that ended the invocation, or "none"

prevars == <<code, once, applied, rewrite>>
adaptvars == <<adapted_function, original, tuple_slots, pointer_types, outcome>>
drivervars == <<pc, dump_srcml, n_configs, cfg, config_object, all_seen, module, processed,
                options, written, call_io, error>>
vars == <<prevars, adaptvars, drivervars>>

(***************************************************************************)
(* Text helpers (Python str semantics)                                     *)
(***************************************************************************)

\* the characters of a string literal, as a sequence of one-character strings
Chars(str) == [i \in 1..Len(str) |-> SubSeq(str, i, i)]

\* s[n:]
DropFirst(s, n) == SubSeq(s, n + 1, Len(s))

\* s.startswith(p)
StartsWith(s, p) == Len(p) <= Len(s) /\ SubSeq(s, 1, Len(p)) = p

RECURSIVE Concat(_)
\* "".join(parts)
Concat(parts) == IF parts = <<>> THEN <<>> ELSE Head(parts) \o Concat(Tail(parts))

RECURSIVE Replace(_, _, _)
\* s.replace(old, new): leftmost, non-overlapping occurrences, one pass
Replace(s, old, new) ==
    IF Len(s) < Len(old) THEN s
    ELSE IF StartsWith(s, old)
         THEN new \o Replace(DropFirst(s, Len(old)), old, new)
         ELSE <<Head(s)>> \o Replace(Tail(s), old, new)

RECURSIVE Contains(_, _)
\* sub in s
Contains(s, sub) ==
    IF Len(s) < Len(sub) THEN FALSE
    ELSE StartsWith(s, sub) \/ Contains(Tail(s), sub)

(***************************************************************************)
(* preprocess.py                                                           *)
(***************************************************************************)

SUNDIALS_EXPORT == Chars("SUNDIALS_EXPORT")
LONG_INT == Chars("long int")
LONG == Chars("long")

strip_sundials_export(c) == Replace(c, SUNDIALS_EXPORT, <<>>)

change_long_int_to_long(c) == Replace(c, LONG_INT, LONG)

preprocess_header(c) == change_long_int_to_long(strip_sundials_export(c))


(***************************************************************************)
(* More text helpers                                                       *)
(***************************************************************************)

Range(seq) == { seq[i] : i \in 1..Len(seq) }

\* x in list
InList(x, list) == x \in Range(list)

RECURSIVE Join(_, _)
\* sep.join(parts)
Join(parts, sep) ==
    IF parts = <<>> THEN <<>>
    ELSE IF Len(parts) = 1 THEN parts[1]
    ELSE parts[1] \o sep \o Join(Tail(parts), sep)

RECURSIVE SplitFrom(_, _, _)
SplitFrom(s, sep, cur) ==
    IF s = <<>> THEN <<cur>>
    ELSE IF Head(s) = sep THEN <<cur>> \o SplitFrom(Tail(s), sep, <<>>)
    ELSE SplitFrom(Tail(s), sep, Append(cur, Head(s)))

\* s.split(sep) for a one-character separator
Split(s, sep) == SplitFrom(s, sep, <<>>)

\* the characters matched by \s and removed by strip()
Whitespace == {" ", "\t", "\n", "\r", "\f"}

RECURSIVE LStrip(_)
LStrip(s) == IF s # <<>> /\ Head(s) \in Whitespace THEN LStrip(Tail(s)) ELSE s

RECURSIVE RStrip(_)
RStrip(s) ==
    IF s # <<>> /\ s[Len(s)] \in Whitespace THEN RStrip(SubSeq(s, 1, Len(s) - 1)) ELSE s

\* s.strip()
Strip(s) == RStrip(LStrip(s))

RECURSIVE ToStr(_)
\* str(n) for a natural number
ToStr(n) ==
    LET digit(d) == SubSeq("0123456789", d + 1, d + 1)
    IN  IF n < 10 THEN <<digit(n)>> ELSE ToStr(n \div 10) \o <<digit(n % 10)>>

RECURSIVE CountOf(_, _)
\* s.count(sub)
CountOf(s, sub) ==
    IF Len(s) < Len(sub) THEN 0
    ELSE IF StartsWith(s, sub) THEN 1 + CountOf(DropFirst(s, Len(sub)), sub)
    ELSE CountOf(Tail(s), sub)

(***************************************************************************)
(* adapt_sundials_type_returns.py                                          *)
(*                                                                         *)
(* A function description (AdaptedFunction) is a record                    *)
(*   function_name, return_type, parameters, comments                      *)
(* a type (CppType) is a record  specifiers, typenames, modifiers  of      *)
(* lists of texts, and a parameter is a record  decl_name, typenames.      *)
(* The comments are the list of comment texts; comments_as_str() is their  *)
(* concatenation line by line and add_eol_comment appends one.             *)
(***************************************************************************)

RV_POLICY_REFERENCE == Chars("nb::rv_policy::reference")
STD_TUPLE == Chars("std::tuple")
suncontext_typename == Chars("SUNContext")
NOT_YET_SUPPORTED == "new_return_type.typenames has length > 1, this is not yet supported"

\* str(cpp_type): specifiers, type names and modifiers separated by blanks
str_code(t) ==
    Join(SelectSeq(<< Join(t.specifiers, <<" ">>),
                      Join(t.typenames, <<" ">>),
                      Join(t.modifiers, <<" ">>) >>,
                   LAMBDA part : part # <<>>),
         <<" ">>)

\* return_type.str_return_type(); the return types enumerated below carry
\* no storage specifier, for which it is the plain rendering of the type
str_return_type(t) == str_code(t)

comments_as_str(comments) == Join(comments, <<"\n">>)

\* a test that recognises the annotation only as the whole comment
has_reference_policy_exact(af) == comments_as_str(af.comments) = RV_POLICY_REFERENCE

\* lines 30-33: "nb::rv_policy::reference" in ...comments_as_str()
has_reference_policy(af) == Contains(comments_as_str(af.comments), RV_POLICY_REFERENCE)

add_eol_comment(comments, c) == Append(comments, c)

\* re.match(r"std::tuple\s*<(.+?)>", s): group(1) of the match, if any
tuple_args_match(s) ==
    LET after == LStrip(DropFirst(s, Len(STD_TUPLE)))
        rest == Tail(after)
        closers == { i \in 2..Len(rest) : rest[i] = ">" }
        first == CHOOSE i \in closers : \A j \in closers : i <= j
    IN  IF ~StartsWith(s, STD_TUPLE) \/ after = <<>> \/ Head(after) # "<" \/ closers = {}
        THEN [matched |-> FALSE, group |-> <<>>]
        ELSE IF \E j \in 1..(first - 1) : rest[j] = "\n"
        THEN [matched |-> FALSE, group |-> <<>>]
        ELSE [matched |-> TRUE, group |-> SubSeq(rest, 1, first - 1)]

\* [arg.strip() for arg in group.split(",")]
split_tuple_args(group) ==
    LET parts == Split(group, ",") IN [i \in 1..Len(parts) |-> Strip(parts[i])]

\* [idx for idx, arg in enumerate(args) if arg in sundials_pointer_types]
idx_nurse_list(args, ptypes) ==
    LET idxs == [i \in 1..Len(args) |-> i - 1]
    IN  SelectSeq(idxs, LAMBDA idx : InList(args[idx + 1], ptypes))

\* [idx for idx, param in enumerate(parameters) if "SUNContext" in typenames]
context_param_indices(parameters) ==
    LET idxs == [i \in 1..Len(parameters) |-> i - 1]
    IN  SelectSeq(idxs, LAMBDA idx : InList(suncontext_typename, parameters[idx + 1].typenames))

keep_alive_comment(idx) ==
    Chars("nb::keep_alive<0, ") \o ToStr(idx + 1) \o Chars(">()")

returns_references_comment(idx, idx_nurse_args) ==
    Chars("nb::call_policy<sundials4py::returns_references_to<")
        \o ToStr(idx + 1) \o Chars(", ") \o idx_nurse_args \o Chars(">>()")

RECURSIVE add_comments(_, _)
\* the add_eol_comment calls of one loop over the parameters, in order
add_comments(comments, new_comments) ==
    IF new_comments = <<>> THEN comments
    ELSE add_comments(add_eol_comment(comments, Head(new_comments)), Tail(new_comments))

shared_ptr_type(t) ==
    Chars("std::shared_ptr<std::remove_pointer_t<") \o t \o Chars(">>")

\* a constructor call that leaves out the deleter type
our_make_shared_without_deleter(t, raw) ==
    Chars("our_make_shared<std::remove_pointer_t<") \o t \o Chars(">>(") \o raw \o Chars(")")

\* lines 95-96 and 137-138: the deleter-typed constructor call
our_make_shared(t, raw) ==
    Chars("our_make_shared<std::remove_pointer_t<") \o t \o Chars(">, ")
        \o t \o Chars("Deleter>(") \o raw \o Chars(")")

std_get(i) == Chars("std::get<") \o ToStr(i) \o Chars(">(lambda_result)")

\* code_utils.unindent_code(code, flag_strip_empty_lines=True) of one line
unindent_code(line) == LStrip(line)

ADAPTER_SUFFIX == Chars("_adapt_return_type_to_shared_ptr")

\* the LambdaAdapter both branches build once the new return type is known
make_lambda_adapter(af, new_typename, lambda_output_code) ==
    [ new_function_infos |->
          [af EXCEPT !.return_type =
              [specifiers |-> <<>>, modifiers |-> <<>>, typenames |-> <<new_typename>>]],
      lambda_output_code |-> unindent_code(lambda_output_code) \o <<"\n">>,
      adapted_cpp_parameter_list |->
          [i \in 1..Len(af.parameters) |-> af.parameters[i].decl_name],
      lambda_name |-> af.function_name \o ADAPTER_SUFFIX ]

NoChange(af) == [kind |-> "none", function |-> af]

\* a check that lets two type names through
more_than_two_typenames(t) == Len(t.typenames) > 2

\* line 75: len(new_return_type.typenames) > 1
more_than_one_typename(t) == Len(t.typenames) > 1

\* lines 51-110: the tuple branch
adapt_tuple_return(af, tuple_args_list, ptypes) ==
    LET nurses == idx_nurse_list(tuple_args_list, ptypes)
        idx_nurse_args == Join([k \in 1..Len(nurses) |-> ToStr(nurses[k])], Chars(", "))
        ctx == context_param_indices(af.parameters)
        commented == [af EXCEPT !.comments =
            add_comments(@, [k \in 1..Len(ctx) |->
                                returns_references_comment(ctx[k], idx_nurse_args)])]
        tuple_args == [i \in 1..Len(tuple_args_list) |->
            IF InList(i - 1, nurses) THEN shared_ptr_type(tuple_args_list[i])
            ELSE tuple_args_list[i]]
        tuple_type == Chars("std::tuple<") \o Join(tuple_args, Chars(", ")) \o Chars(">")
        tuple_parts == [i \in 1..Len(tuple_args_list) |->
            IF InList(i - 1, nurses) THEN our_make_shared(tuple_args_list[i], std_get(i - 1))
            ELSE std_get(i - 1)]
        lambda_output_code ==
            Chars("return std::make_tuple(") \o Join(tuple_parts, Chars(", ")) \o Chars(");")
    IN  IF more_than_one_typename(af.return_type)
        THEN [kind |-> "raise", error |-> NOT_YET_SUPPORTED, function |-> commented]
        ELSE [kind |-> "adapter", function |-> commented,
              adapter |-> make_lambda_adapter(commented, tuple_type, lambda_output_code)]

\* lines 111-149: the direct branch
adapt_direct_return(af) ==
    LET ctx == context_param_indices(af.parameters)
        commented == [af EXCEPT !.comments =
            add_comments(@, [k \in 1..Len(ctx) |-> keep_alive_comment(ctx[k])])]
        old_return_type == str_code(af.return_type)
        lambda_output_code ==
            Chars("return ") \o our_make_shared(old_return_type, Chars("lambda_result"))
                \o Chars(";")
    IN  [kind |-> "adapter", function |-> commented,
         adapter |-> make_lambda_adapter(commented, shared_ptr_type(old_return_type),
                                         lambda_output_code)]

\* The adapter: what it returns (or raises) and the description it leaves.
adapt_sundials_types_returns_to_shared_ptr(af, ptypes) ==
    LET return_type_str == str_return_type(af.return_type)
        is_tuple == StartsWith(return_type_str, STD_TUPLE)
        tuple_args == tuple_args_match(return_type_str)
        tuple_args_list == split_tuple_args(tuple_args.group)
        needs_adapt ==
            IF is_tuple
            THEN tuple_args.matched
                 /\ \E i \in 1..Len(tuple_args_list) : InList(tuple_args_list[i], ptypes)
            ELSE InList(return_type_str, ptypes)
    IN  IF has_reference_policy(af) THEN NoChange(af)
        ELSE IF ~needs_adapt THEN NoChange(af)
        ELSE IF is_tuple THEN adapt_tuple_return(af, tuple_args_list, ptypes)
        ELSE adapt_direct_return(af)

\* generate.py lines 50-66
BuiltinPointerTypes ==
    << Chars("N_Vector"), Chars("SUNAdaptController"), Chars("SUNAdjointCheckpointScheme"),
       Chars("MRIStepInnerStepper"), Chars("SUNAdjointStepper"), Chars("SUNContext"),
       Chars("SUNDomEigEstimator"), Chars("SUNErrHandler"), Chars("SUNLinearSolver"),
       Chars("SUNLogger"), Chars("SUNMatrix"), Chars("SUNMemoryHelper"),
       Chars("SUNNonlinearSolver"), Chars("SUNProfiler"), Chars("SUNStepper") >>

\* values of the variables of a part of the program that is not running
PreIdle == code = <<>> /\ once = <<>> /\ applied = 0 /\ rewrite = "none"

AdaptIdle ==
    /\ adapted_function = <<>> /\ original = <<>> /\ tuple_slots = <<>>
    /\ pointer_types = <<>> /\ outcome = [kind |-> "idle"]

DriverIdle ==
    /\ pc = "idle" /\ dump_srcml = FALSE /\ n_configs = 0 /\ cfg = 0
    /\ config_object = <<>> /\ all_seen = FALSE /\ module = <<>> /\ processed = <<>>
    /\ options = <<>> /\ written = {} /\ call_io = <<>> /\ error = "none"

(***************************************************************************)
(* The rewrites applied to each header text of a bounded family, twice.    *)
(***************************************************************************)

\* Header fragments the input texts are assembled from.
Fragments ==
    { SUNDIALS_EXPORT, Chars("SUNDIALS_"), Chars("EXPORT"),
      LONG_INT, LONG, Chars(" int"), Chars(" "), Chars("x") }

MaxFrags == 3

RECURSIVE FragSeqs(_)
\* all sequences of at most n fragments
FragSeqs(n) ==
    IF n = 0 THEN { <<>> }
    ELSE LET shorter == FragSeqs(n - 1)
         IN  shorter \cup { Append(fs, f) : fs \in { t \in shorter : Len(t) = n - 1 }, f \in Fragments }

HeaderTexts == { Concat(fs) : fs \in FragSeqs(MaxFrags) }

PreInit ==
    /\ code \in HeaderTexts
    /\ rewrite \in {"strip", "long", "pre"}
    /\ once = <<>>
    /\ applied = 0
    /\ AdaptIdle /\ DriverIdle

\* the caller keeps the result of a call, and remembers the first one
Returned(result) ==
    /\ applied < 2
    /\ code' = result
    /\ once' = IF applied = 0 THEN result ELSE once
    /\ applied' = applied + 1
    /\ UNCHANGED <<rewrite, adaptvars, drivervars>>

StripExport == rewrite = "strip" /\ Returned(strip_sundials_export(code))

LongIntToLong == rewrite = "long" /\ Returned(change_long_int_to_long(code))

PreprocessHeader == rewrite = "pre" /\ Returned(preprocess_header(code))

PreNext == StripExport \/ LongIntToLong \/ PreprocessHeader

SpecPre == PreInit /\ [][PreNext]_vars

\* C5: for every input text, applying a rewrite (the export-token
\* strip, the long-int rewrite, or their composition) twice yields the same
\* text as applying it once.
PreprocessIdempotent == applied = 2 => code = once

(***************************************************************************)
(* The adapter applied once to each function description of a bounded      *)
(* family.                                                                 *)
(***************************************************************************)

MaxSlots == 3
MaxParams == 3

RECURSIVE SeqsUpTo(_, _)
\* all sequences over S of length at most n
SeqsUpTo(S, n) ==
    IF n = 0 THEN { <<>> }
    ELSE LET shorter == SeqsUpTo(S, n - 1)
         IN  shorter \cup { Append(q, x) : q \in { t \in shorter : Len(t) = n - 1 }, x \in S }

\* a module-specific handle type, known only when its module lists it
ModulePointerType == Chars("ARKodeButcherTable")

SlotTypes ==
    { Chars("int"), Chars("N_Vector"), Chars("std::vector<int>"),
      Chars("std::pair<int,N_Vector>") }

DirectTypes == { Chars("N_Vector"), Chars("int"), ModulePointerType }

ParamTypes == { Chars("N_Vector"), Chars("SUNContext") }

CommentChoices ==
    { <<>>,
      << Chars("Creates a new vector") >>,
      << Chars("Creates a new vector"), Chars("nb::rv_policy::reference") >> }

TupleText(slots) == Chars("std::tuple<") \o Join(slots, Chars(", ")) \o Chars(">")

\* the return types: plain or decorated direct types, tuples written from a
\* slot list, and the same tuples carried as two type names
DirectReturnTypes ==
    { [specifiers |-> s, typenames |-> <<t>>, modifiers |-> m] :
        s \in { <<>>, <<Chars("const")>> }, t \in DirectTypes, m \in { <<>>, <<Chars("*")>> } }

TupleSlotLists == SeqsUpTo(SlotTypes, MaxSlots) \ { <<>> }

TupleTypenames(slots, two_names) ==
    IF two_names /\ Len(slots) > 1
    THEN << Chars("std::tuple<") \o slots[1] \o Chars(","),
            Join(Tail(slots), Chars(", ")) \o Chars(">") >>
    ELSE << TupleText(slots) >>

ParameterLists ==
    { [i \in 1..Len(ts) |-> [decl_name |-> Chars("p") \o ToStr(i), typenames |-> <<ts[i]>>]] :
        ts \in SeqsUpTo(ParamTypes, MaxParams) }

AdaptInit ==
    /\ \E slots \in TupleSlotLists \cup { <<>> }, two_names \in BOOLEAN,
          direct \in DirectReturnTypes, params \in ParameterLists, comments \in CommentChoices :
          /\ (slots = <<>> => ~two_names) /\ (Len(slots) = 1 => ~two_names)
          /\ (slots # <<>> => direct = CHOOSE d \in DirectReturnTypes : TRUE)
          /\ tuple_slots = slots
          /\ original =
                [ function_name |-> Chars("N_VClone"),
                  return_type |->
                      IF slots = <<>> THEN direct
                      ELSE [specifiers |-> <<>>, modifiers |-> <<>>,
                            typenames |-> TupleTypenames(slots, two_names)],
                  parameters |-> params,
                  comments |-> comments ]
    /\ adapted_function = original
    /\ pointer_types \in { BuiltinPointerTypes, BuiltinPointerTypes \o <<ModulePointerType>> }
    /\ outcome = [kind |-> "pending"]
    /\ PreIdle /\ DriverIdle

\* litgen calls the adapter on the function description
Adapt ==
    /\ outcome.kind = "pending"
    /\ LET r == adapt_sundials_types_returns_to_shared_ptr(adapted_function, pointer_types)
       IN  /\ adapted_function' = r.function
           /\ outcome' = [k \in DOMAIN r \ {"function"} |-> r[k]]
    /\ UNCHANGED <<original, tuple_slots, pointer_types, prevars, drivervars>>

AdaptNext == Adapt

SpecAdapt == AdaptInit /\ [][AdaptNext]_vars


(***************************************************************************)
(* generate.py: main() runs generate() on each configuration file in turn  *)
(*                                                                         *)
(* A module of the configuration is a record                               *)
(*   name     its position among the modules of the file                   *)
(*   own      whether it lists settings of its own (one entry per list)    *)
(*   headers  for each header path, whether the file exists                *)
(*   has_path whether it has a "path" key                                  *)
(* Output files are identified by configuration file and module, i.e. the  *)
(* modules are taken to name distinct paths.                               *)
(***************************************************************************)

MaxConfigs == 2
MaxModules == 2

MODULES_NOT_FOUND == "modules: section not found"
NO_CONFIG_FILES == "No generate.yaml files found in directory"
FILE_NOT_FOUND == "FileNotFoundError"
KEY_ERROR_PATH == "KeyError: 'path'"
GENERATOR_ERROR == "generator error"

\* the entry a section lists under a key; sections list distinct entries
Entry(key, owner) ==
    CASE key = "pointer_types"    -> Chars("ARKodeMem_") \o owner
      [] key = "nullable"         -> Chars("tstop_") \o owner
      [] key = "enum_exclusions"  -> Chars("^Enum_") \o owner
      [] key = "class_exclusions" -> Chars("^Class_") \o owner
      [] key = "fn_exclusions"    -> Chars("^Fn_") \o owner
      [] OTHER                    -> Chars("^MACRO_") \o owner

\* the list a module section holds under a key
ModuleEntries(m, key) == IF m.own THEN << Entry(key, ToStr(m.name)) >> ELSE <<>>

\* the list the "all" section holds under a key
AllEntries(all, key) == IF all = "present" THEN << Entry(key, Chars("all")) >> ELSE <<>>

\* litgen_extensions loaders: the shared entries merged with the module's
load_from_yaml(all, m, key) == AllEntries(all, key) \o ModuleEntries(m, key)

load_pointer_types_from_yaml(all, m) == load_from_yaml(all, m, "pointer_types")
load_nullable_params_from_yaml(all, m) == load_from_yaml(all, m, "nullable")
load_enum_exclusions_from_yaml(all, m) == load_from_yaml(all, m, "enum_exclusions")
load_class_exclusions_from_yaml(all, m) == load_from_yaml(all, m, "class_exclusions")
load_fn_exclusions_from_yaml(all, m) == load_from_yaml(all, m, "fn_exclusions")
load_macro_defines_from_yaml(all, m) == load_from_yaml(all, m, "macro_defines")

\* code_utils.join_string_by_pipe_char
join_string_by_pipe_char(strs) == Join(strs, <<"|">>)

\* lines 43-113: the options object generate() constructs
NewOptions ==
    [ sundials_pointer_types |-> BuiltinPointerTypes,
      fn_params_optional_with_default_null |-> <<>>,
      enum_exclude_by_name__regex |-> <<>>,
      class_exclude_by_name__regex |-> <<>>,
      fn_exclude_by_name__regex |-> <<>>,
      macro_define_include_by_name__regex |-> <<>> ]

\* an assignment in place of the extend: the list is rebuilt for each module
replace_pointer_types(list, loaded) == BuiltinPointerTypes \o loaded

\* line 126: options.sundials_pointer_types.extend(loaded)
extend_pointer_types(list, loaded) == list \o loaded

\* lines 126-148: the options after the settings of module m are assembled
assemble_settings(opts, all, m) ==
    [ sundials_pointer_types |->
          extend_pointer_types(opts.sundials_pointer_types,
                               load_pointer_types_from_yaml(all, m)),
      fn_params_optional_with_default_null |->
          load_nullable_params_from_yaml(all, m),
      enum_exclude_by_name__regex |->
          join_string_by_pipe_char(load_enum_exclusions_from_yaml(all, m)),
      class_exclude_by_name__regex |->
          join_string_by_pipe_char(load_class_exclusions_from_yaml(all, m)),
      fn_exclude_by_name__regex |->
          join_string_by_pipe_char(load_fn_exclusions_from_yaml(all, m)),
      macro_define_include_by_name__regex |->
          join_string_by_pipe_char(load_macro_defines_from_yaml(all, m)) ]

\* a test that only notices an absent section, not an empty one
modules_absent(modules) == modules = "absent"

\* line 117: "if not config_object"
modules_missing(modules) == modules \in {"absent", "empty"}

NoModule == [name |-> 0, own |-> FALSE, headers |-> <<>>, has_path |-> FALSE]

NoCalls == [headers_read |-> 0, parser_calls |-> 0, generator_calls |-> 0, outputs |-> 0]

ModuleChoices(k) ==
    { [name |-> k, own |-> o, headers |-> h, has_path |-> p] :
        o \in BOOLEAN, h \in { <<TRUE>>, <<TRUE, FALSE>> }, p \in BOOLEAN }

\* the functions a header declares, with the slot list of a tuple return
HeaderFunctions ==
    LET fn(typenames, ptypes) ==
            [ function_name |-> Chars("ARKStepCreate"),
              return_type |-> [specifiers |-> <<>>, modifiers |-> <<>>, typenames |-> typenames],
              parameters |-> [i \in 1..Len(ptypes) |->
                  [decl_name |-> Chars("p") \o ToStr(i), typenames |-> <<ptypes[i]>>]],
              comments |-> <<>> ]
        int_handle == << Chars("int"), Chars("N_Vector") >>
        returns ==
            { [typenames |-> <<Chars("N_Vector")>>, slots |-> <<>>],
              [typenames |-> <<Chars("int")>>, slots |-> <<>>],
              [typenames |-> TupleTypenames(int_handle, FALSE), slots |-> int_handle],
              [typenames |-> TupleTypenames(int_handle, TRUE), slots |-> int_handle] }
        params == { << Chars("N_Vector") >>, << Chars("N_Vector"), Chars("SUNContext") >> }
    IN  { [fn |-> fn(r.typenames, p), slots |-> r.slots] : r \in returns, p \in params }

DriverInit ==
    /\ pc = "main"
    /\ dump_srcml = FALSE
    /\ n_configs = 0
    /\ cfg = 0
    /\ config_object = [modules |-> "unread", all |-> "absent"]
    /\ all_seen = FALSE
    /\ module = NoModule
    /\ processed = <<>>
    /\ options = <<>>
    /\ written = {}
    /\ call_io = NoCalls
    /\ error = "none"

Init == DriverInit /\ PreIdle /\ AdaptIdle

\* a raise: the exception leaves generate() and main()
Fail(e) == pc' = "failed" /\ error' = e

\* lines 177-199: parse the arguments and list the configuration files
MainStart ==
    /\ pc = "main"
    /\ \E is_dir \in BOOLEAN, n \in 0..MaxConfigs, dump \in BOOLEAN :
          /\ (~is_dir => n = 1)
          /\ dump_srcml' = dump
          /\ n_configs' = n
          /\ IF n = 0
             THEN Fail(NO_CONFIG_FILES) /\ UNCHANGED cfg
             ELSE pc' = "generate" /\ cfg' = 1 /\ UNCHANGED error
    /\ UNCHANGED <<config_object, all_seen, module, processed, options, written, call_io,
                   prevars, adaptvars>>

\* lines 40-118: construct the options, load the configuration file and
\* require its modules section
GenerateStart ==
    /\ pc = "generate"
    /\ \E modules \in {"absent", "empty", "mapping"}, all \in {"absent", "present"} :
          /\ (modules # "mapping" => all = "absent")
          /\ config_object' = [modules |-> modules, all |-> all]
          /\ IF modules_missing(modules)
             THEN Fail(MODULES_NOT_FOUND)
             ELSE pc' = "for_module" /\ UNCHANGED error
    /\ options' = NewOptions
    /\ all_seen' = FALSE
    /\ module' = NoModule
    /\ processed' = <<>>
    /\ call_io' = NoCalls
    /\ UNCHANGED <<dump_srcml, n_configs, cfg, written, prevars, adaptvars>>

\* lines 120-122: the next key is "all", which is skipped
SkipAll ==
    /\ pc = "for_module"
    /\ config_object.all = "present" /\ ~all_seen
    /\ all_seen' = TRUE
    /\ UNCHANGED <<pc, dump_srcml, n_configs, cfg, config_object, module, processed, options,
                   written, call_io, error, prevars, adaptvars>>

\* lines 120-124: the next key names a module
NextModule ==
    /\ pc = "for_module"
    /\ Len(processed) < MaxModules
    /\ \E m \in ModuleChoices(Len(processed) + 1) : module' = m
    /\ pc' = "load_settings"
    /\ UNCHANGED <<dump_srcml, n_configs, cfg, config_object, all_seen, processed, options,
                   written, call_io, error, prevars, adaptvars>>

\* lines 126-148: assemble the settings of the module into the options
LoadSettings ==
    /\ pc = "load_settings"
    /\ options' = assemble_settings(options, config_object.all, module)
    /\ processed' = Append(processed, module)
    /\ pc' = "read_headers"
    /\ UNCHANGED <<dump_srcml, n_configs, cfg, config_object, all_seen, module, written,
                   call_io, error, prevars, adaptvars>>

\* how many headers are opened before a missing one stops the loop
headers_opened(headers) ==
    IF \E i \in 1..Len(headers) : ~headers[i]
    THEN (CHOOSE i \in 1..Len(headers) : ~headers[i] /\ \A j \in 1..(i - 1) : headers[j]) - 1
    ELSE Len(headers)

\* lines 150-154: read and concatenate the headers of the module
ReadHeaders ==
    /\ pc = "read_headers"
    /\ call_io' = [call_io EXCEPT !.headers_read = @ + headers_opened(module.headers)]
    /\ IF headers_opened(module.headers) < Len(module.headers)
       THEN Fail(FILE_NOT_FOUND)
       ELSE pc' = "invoke" /\ UNCHANGED error
    /\ UNCHANGED <<dump_srcml, n_configs, cfg, config_object, all_seen, module, processed,
                   options, written, prevars, adaptvars>>

\* lines 165-168 and 159-160: open(path, "w") and write
write_file(files, f) == files \cup {f}

\* lines 156-161: dump the structural representation instead of bindings
DumpSrcml ==
    /\ pc = "invoke" /\ dump_srcml
    /\ IF module.has_path
       THEN /\ written' = write_file(written, [config |-> cfg, module |-> module.name, kind |-> "xml"])
            /\ call_io' = [call_io EXCEPT !.parser_calls = @ + 1, !.outputs = @ + 1]
            /\ pc' = "for_module"
            /\ UNCHANGED error
       ELSE /\ call_io' = [call_io EXCEPT !.parser_calls = @ + 1]
            /\ Fail(KEY_ERROR_PATH)
            /\ UNCHANGED written
    /\ UNCHANGED <<dump_srcml, n_configs, cfg, config_object, all_seen, module, processed,
                   options, prevars, adaptvars>>

\* line 163: litgen.generate_code runs the adapters on the declared function
GenerateCode ==
    /\ pc = "invoke" /\ ~dump_srcml
    /\ \E f \in HeaderFunctions, generator_ok \in BOOLEAN :
          LET r == adapt_sundials_types_returns_to_shared_ptr(f.fn, options.sundials_pointer_types)
          IN  /\ original' = f.fn
              /\ tuple_slots' = f.slots
              /\ pointer_types' = options.sundials_pointer_types
              /\ adapted_function' = r.function
              /\ outcome' = [k \in DOMAIN r \ {"function"} |-> r[k]]
              /\ IF r.kind = "raise" THEN Fail(r.error)
                 ELSE IF ~generator_ok THEN Fail(GENERATOR_ERROR)
                 ELSE pc' = "write_output" /\ UNCHANGED error
    /\ call_io' = [call_io EXCEPT !.generator_calls = @ + 1]
    /\ UNCHANGED <<dump_srcml, n_configs, cfg, config_object, all_seen, module, processed,
                   options, written, prevars>>

\* lines 165-174: write the generated code to the module's path, or print it;
\* the function descriptions of the generator call are gone by then
WriteOutput ==
    /\ pc = "write_output"
    /\ IF module.has_path
       THEN /\ written' = write_file(written, [config |-> cfg, module |-> module.name, kind |-> "bindings"])
            /\ call_io' = [call_io EXCEPT !.outputs = @ + 1]
       ELSE UNCHANGED <<written, call_io>>
    /\ pc' = "for_module"
    /\ adapted_function' = <<>> /\ original' = <<>> /\ tuple_slots' = <<>>
    /\ pointer_types' = <<>> /\ outcome' = [kind |-> "idle"]
    /\ UNCHANGED <<dump_srcml, n_configs, cfg, config_object, all_seen, module, processed,
                   options, error, prevars>>

\* lines 201-202: the loop over the keys is exhausted, generate() returns and
\* main() goes on to the next configuration file
GenerateReturn ==
    /\ pc = "for_module"
    /\ processed # <<>> \/ config_object.all = "present"
    /\ config_object.all = "present" => all_seen
    /\ IF cfg < n_configs
       THEN pc' = "generate" /\ cfg' = cfg + 1
       ELSE pc' = "done" /\ UNCHANGED cfg
    /\ UNCHANGED <<dump_srcml, n_configs, config_object, all_seen, module, processed, options,
                   written, call_io, error, prevars, adaptvars>>

Next ==
    \/ MainStart
    \/ GenerateStart
    \/ SkipAll
    \/ NextModule
    \/ LoadSettings
    \/ ReadHeaders
    \/ DumpSrcml
    \/ GenerateCode
    \/ WriteOutput
    \/ GenerateReturn

Spec == Init /\ [][Next]_vars

(***************************************************************************)
(* Properties of the adapter                                               *)
(***************************************************************************)

\* the adapter call has returned or raised
Called == outcome.kind \in {"none", "adapter", "raise"}

\* the description carried the raw-reference annotation before the call
RawReference ==
    \E i \in 1..Len(original.comments) :
        Contains(original.comments[i], Chars("nb::rv_policy::reference"))

\* 0-based positions of the context-typed parameters
ContextPositions ==
    { i \in 0..(Len(original.parameters) - 1) :
        \E n \in 1..Len(original.parameters[i + 1].typenames) :
            original.parameters[i + 1].typenames[n] = Chars("SUNContext") }

\* 0-based indices of the slots of the tuple return that are handle types
HandleSlots == { j \in 0..(Len(tuple_slots) - 1) : InList(tuple_slots[j + 1], pointer_types) }

SetToSeq(S) ==
    LET RECURSIVE ordered(_)
        ordered(R) == IF R = {} THEN <<>>
                      ELSE LET m == CHOOSE x \in R : \A y \in R : x <= y
                           IN  <<m>> \o ordered(R \ {m})
    IN  ordered(S)

WrapperOf(T) == Chars("std::shared_ptr<std::remove_pointer_t<") \o T \o Chars(">>")

ExpectedSlotTypes(k) ==
    [i \in 1..Len(tuple_slots) |->
        IF i - 1 = k THEN WrapperOf(tuple_slots[i]) ELSE tuple_slots[i]]

ExpectedSlotValues(k) ==
    [i \in 1..Len(tuple_slots) |->
        IF i - 1 = k
        THEN Chars("our_make_shared<std::remove_pointer_t<") \o tuple_slots[i] \o Chars(">, ")
                 \o tuple_slots[i] \o Chars("Deleter>(std::get<") \o ToStr(i - 1)
                 \o Chars(">(lambda_result))")
        ELSE Chars("std::get<") \o ToStr(i - 1) \o Chars(">(lambda_result)")]

\* C2: a tuple return std::tuple<A0,...,An-1> with exactly one handle slot k
\* (whatever the other slot types, templates included) gets a tuple return
\* type of the same length in which only slot k is wrapped, and a return
\* statement that wraps only std::get<k>, in the original slot order.  Stated
\* for the tuple carried as a single type name, the shape the adapter supports.
OnlyHandleSlotWrapped ==
    \A k \in HandleSlots :
        (Called /\ ~RawReference /\ HandleSlots = {k}
            /\ Len(original.return_type.typenames) = 1)
        => /\ outcome.kind = "adapter"
           /\ outcome.adapter.new_function_infos.return_type.typenames =
                 << Chars("std::tuple<") \o Join(ExpectedSlotTypes(k), Chars(", "))
                        \o Chars(">") >>
           /\ outcome.adapter.lambda_output_code =
                 Chars("return std::make_tuple(") \o Join(ExpectedSlotValues(k), Chars(", "))
                     \o Chars(");\n")

\* C3: a function already annotated nb::rv_policy::reference is not rewritten:
\* the adapter returns None and the description, comments included, is as it
\* was before the call.
RawReferenceUntouched ==
    (Called /\ RawReference) => (outcome.kind = "none" /\ adapted_function = original)

\* an annotated function with a handle return and a context parameter
RawReferenceUntouchedWitness ==
    /\ Called /\ RawReference
    /\ ContextPositions # {}
    /\ str_return_type(original.return_type) = Chars("N_Vector")

\* the comments the claim expects the rewrite to attach, in parameter order
ExpectedKeepAlive ==
    LET ctx == SetToSeq(ContextPositions)
        handles == SetToSeq(HandleSlots)
        slot_args == Join([k \in 1..Len(handles) |-> ToStr(handles[k])], Chars(", "))
    IN  [n \in 1..Len(ctx) |->
            IF tuple_slots = <<>>
            THEN Chars("nb::keep_alive<0, ") \o ToStr(ctx[n] + 1) \o Chars(">()")
            ELSE Chars("nb::call_policy<sundials4py::returns_references_to<")
                     \o ToStr(ctx[n] + 1) \o Chars(", ") \o slot_args \o Chars(">>()")]

\* C4: when the adapter rewrites a function, each context-typed parameter at
\* 0-based position i gets keep_alive<0, i+1> for a single-handle return and
\* returns_references_to<i+1, j1, ..., jm> over the handle slots for a tuple
\* return; without a context parameter nothing is attached.
KeepAliveAttached ==
    outcome.kind = "adapter"
    => adapted_function.comments = original.comments \o ExpectedKeepAlive


(***************************************************************************)
(* Properties of generate() and main()                                     *)
(***************************************************************************)

\* C6: generation is all-or-nothing: when the invocation ends in failure,
\* no output file has been written by it.
AllOrNothing == pc = "failed" => written = {}

\* C7: a configuration file without modules section (absent or empty) makes
\* generate() fail with the configuration error before any header is read,
\* before the parser or the generator is invoked and before any output of
\* that configuration file is written; no per-module step is reached.
NoModulesFailsFirst ==
    (pc # "idle" /\ config_object.modules \in {"absent", "empty"})
    => /\ pc = "failed"
       /\ error = MODULES_NOT_FOUND
       /\ call_io.headers_read = 0
       /\ call_io.parser_calls = 0
       /\ call_io.generator_calls = 0
       /\ \A f \in written : f.config < cfg
       /\ processed = <<>>
       /\ module = NoModule

\* the second configuration file has an empty modules section, after the
\* first one wrote its output
NoModulesFailsFirstWitness ==
    /\ config_object.modules = "empty"
    /\ error = MODULES_NOT_FOUND
    /\ cfg = 2
    /\ written # {}

\* the unsupported shape: a tuple return with a handle slot, carried as more
\* than one type name, on a function not annotated as raw reference
UnsupportedShapeMet ==
    /\ Called /\ ~RawReference
    /\ Len(original.return_type.typenames) > 1
    /\ HandleSlots # {}

\* the generation run was aborted by the adapter's error and no bindings of
\* the current module were written
AbortedWithoutBindings ==
    /\ outcome.kind = "raise"
    /\ outcome.error = NOT_YET_SUPPORTED
    /\ pc = "failed"
    /\ error = NOT_YET_SUPPORTED
    /\ \A f \in written : ~(f.config = cfg /\ f.module = module.name)

DerivedFromCurrent(key) ==
    Range(AllEntries(config_object.all, key)) \cup Range(ModuleEntries(module, key))

\* the pointer-type list holds nothing that came only from an earlier module
PointerTypesOfCurrent ==
    Range(options.sundials_pointer_types)
        \subseteq Range(BuiltinPointerTypes) \cup DerivedFromCurrent("pointer_types")

\* the nullable list and the four patterns hold the entries derived from the
\* current module and "all", and nothing else
OtherSettingsOfCurrent ==
    /\ Range(options.fn_params_optional_with_default_null)
           = DerivedFromCurrent("nullable")
    /\ Len(options.fn_params_optional_with_default_null)
           = Cardinality(DerivedFromCurrent("nullable"))
    /\ Range(Split(options.enum_exclude_by_name__regex, "|")) \ {<<>>}
           = DerivedFromCurrent("enum_exclusions")
    /\ Range(Split(options.class_exclude_by_name__regex, "|")) \ {<<>>}
           = DerivedFromCurrent("class_exclusions")
    /\ Range(Split(options.fn_exclude_by_name__regex, "|")) \ {<<>>}
           = DerivedFromCurrent("fn_exclusions")
    /\ Range(Split(options.macro_define_include_by_name__regex, "|")) \ {<<>>}
           = DerivedFromCurrent("macro_defines")

\* C9: when the generator or the structural dump is invoked for a
\* module, every module-specific setting of the options (pointer-type list,
\* nullable list, exclusion and macro patterns) is derived from that module
\* and the "all" entries alone: no entry comes only from an earlier module.
SettingsReplaced == pc = "invoke" => (PointerTypesOfCurrent /\ OtherSettingsOfCurrent)

\* the pointer types loaded for the modules processed so far, in order
LoadedSoFar ==
    Concat([k \in 1..Len(processed) |->
               load_pointer_types_from_yaml(config_object.all, processed[k])])

InGenerate == pc \in {"for_module", "load_settings", "read_headers", "invoke", "write_output"}

\* C10: within one generate() call the pointer-type list is the 15 built-in
\* names followed by the loaded pointer types of the modules processed so
\* far, in processing order ("all" is skipped and the list is never reset),
\* while the nullable and exclusion settings are those of the current module
\* alone; a new generate() call starts again from the built-in names.
PointerTypesAccumulate ==
    InGenerate
    => /\ Len(BuiltinPointerTypes) = 15
       /\ options.sundials_pointer_types = BuiltinPointerTypes \o LoadedSoFar
       /\ Len(options.sundials_pointer_types) >= 15
       /\ processed = <<>> => options.sundials_pointer_types = BuiltinPointerTypes
       /\ pc \in {"read_headers", "invoke", "write_output"}
          => /\ options.fn_params_optional_with_default_null
                    = load_nullable_params_from_yaml(config_object.all, module)
             /\ options.fn_exclude_by_name__regex
                    = Join(load_fn_exclusions_from_yaml(config_object.all, module), <<"|">>)

\* the generator is about to run for the second module, the first module
\* having listed a pointer type of its own and the second none
PointerTypesAccumulateWitness ==
    /\ pc = "invoke"
    /\ Len(processed) = 2
    /\ processed[1].own /\ ~processed[2].own
    /\ InList(Entry("pointer_types", ToStr(1)), options.sundials_pointer_types)
    /\ cfg = 2

====
